---------------------------- MODULE Spec2Model ----------------------------
(***************************************************************************)
(* A model of cheroot/cli.py: the bind-address parser, the application     *)
(* resolver, the two server-construction strategies and main().            *)
(*                                                                         *)
(* Python strings are sequences of one-character strings, so that          *)
(* partition, startswith, slicing and lower() are computed and not         *)
(* assumed.  Python values are tagged records (None, str, int, tuple,      *)
(* objects); a call yields Ok(value) or Raise(exception).                  *)
(***************************************************************************)
EXTENDS Integers, Sequences, FiniteSets, TLC

VARIABLES
    pc,                \* where the modelled call or run stands
    bind_addr_string,  \* parse_wsgi_bind_addr's argument
    host_rejected,     \* urllib: whether a bracketed host fails its IP check
    bind_result,       \* what parse_wsgi_bind_addr returned or raised
    bind_addr,         \* the value read from BindLocation.bind_addr
    full_path,         \* Application.resolve's argument
    modules,           \* the importable modules: name -> attribute -> object
    resolved,          \* what Application.resolve returned or raised
    raw_args,          \* the argparse Namespace (dest -> value)
    sys_path,          \* sys.path
    sys_modules,       \* names of the modules import_module has loaded
    kwargs,            \* what Application.server_args returned
    served,            \* outcome of line 217: server(raw_args).safe_start()
    argv,              \* the command line, as (flag, value) items
    argi,              \* index of the next item parse_args consumes
    cwd,               \* the process's working directory
    converted          \* the type conversions done so far, in order

bindVars == <<bind_addr_string, host_rejected, bind_result, bind_addr>>
resolveVars == <<full_path, modules, resolved>>
serverVars == <<raw_args, sys_path, sys_modules, kwargs, served>>
mainVars == <<argv, argi, cwd, converted>>

vars == <<pc, bindVars, resolveVars, serverVars, mainVars>>

---------------------------------------------------------------------------
(* Bounds *)

\* Longest input, counted in tokens of BindTokens.
MaxTokens == 3

\* Longest module path, counted in tokens of PathTokens.
MaxPathTokens == 3

\* Largest value of an integer option.
MaxInt == 1

\* Longest command line, counted in (flag, value) items.
MaxArgs == 3

---------------------------------------------------------------------------
(* Python values and call outcomes *)

None == [t |-> "None"]
PyStr(s) == [t |-> "str", v |-> s]
PyInt(n) == [t |-> "int", v |-> n]
Tuple2(x, y) == [t |-> "tuple", fst |-> x, snd |-> y]

Ok(v) == [exc |-> "", val |-> v]
Raise(e) == [exc |-> e, val |-> None]

\* bool(x) for the values that occur
Truthy(x) ==
    CASE x.t = "None" -> FALSE
      [] x.t = "str" -> Len(x.v) > 0
      [] x.t = "int" -> x.v # 0
      [] OTHER -> TRUE

\* x or y, x and y
PyOr(x, y) == IF Truthy(x) THEN x ELSE y
PyAnd(x, y) == IF Truthy(x) THEN y ELSE x

---------------------------------------------------------------------------
(* str methods *)

\* index of the first / last occurrence of character c in s, 0 when absent
FirstIndex(s, c) ==
    IF \E i \in 1..Len(s) : s[i] = c
    THEN CHOOSE i \in 1..Len(s) : s[i] = c /\ \A j \in 1..(i - 1) : s[j] # c
    ELSE 0

LastIndex(s, c) ==
    IF \E i \in 1..Len(s) : s[i] = c
    THEN CHOOSE i \in 1..Len(s) : s[i] = c /\ \A j \in (i + 1)..Len(s) : s[j] # c
    ELSE 0

\* s.partition(c): (head, sep, tail), (s, '', '') when c is absent
partition(s, c) ==
    LET i == FirstIndex(s, c) IN
    IF i = 0 THEN << s, <<>>, <<>> >>
    ELSE << SubSeq(s, 1, i - 1), <<c>>, SubSeq(s, i + 1, Len(s)) >>

\* s.rpartition(c): (head, sep, tail), ('', '', s) when c is absent
rpartition(s, c) ==
    LET i == LastIndex(s, c) IN
    IF i = 0 THEN << <<>>, <<>>, s >>
    ELSE << SubSeq(s, 1, i - 1), <<c>>, SubSeq(s, i + 1, Len(s)) >>

startswith(s, c) == Len(s) > 0 /\ s[1] = c

UpperChars == << "A", "B", "C", "D", "E", "F", "G", "H", "I", "J", "K", "L", "M",
                 "N", "O", "P", "Q", "R", "S", "T", "U", "V", "W", "X", "Y", "Z" >>
LowerChars == << "a", "b", "c", "d", "e", "f", "g", "h", "i", "j", "k", "l", "m",
                 "n", "o", "p", "q", "r", "s", "t", "u", "v", "w", "x", "y", "z" >>
DigitChars == << "0", "1", "2", "3", "4", "5", "6", "7", "8", "9" >>

LowerChar(c) ==
    IF \E i \in 1..Len(UpperChars) : UpperChars[i] = c
    THEN LowerChars[CHOOSE i \in 1..Len(UpperChars) : UpperChars[i] = c]
    ELSE c

\* s.lower()
lower(s) == [i \in 1..Len(s) |-> LowerChar(s[i])]

IsDigit(c) == \E i \in 1..Len(DigitChars) : DigitChars[i] = c
DigitVal(c) == (CHOOSE i \in 1..Len(DigitChars) : DigitChars[i] = c) - 1

\* s.isdigit() and s.isascii()
isdigit(s) == Len(s) > 0 /\ \A i \in 1..Len(s) : IsDigit(s[i])

\* int(s) for a string of decimal digits.  Python's integers are unbounded;
\* here a value above 65535 is kept as it is once reached (it stays above
\* 65535, the only thing read of it), so that no machine integer overflows.
RECURSIVE int(_)
int(s) ==
    IF Len(s) = 0 THEN 0
    ELSE LET h == int(SubSeq(s, 1, Len(s) - 1)) IN
         IF h > 65535 THEN h ELSE 10 * h + DigitVal(s[Len(s)])

\* the NUL character
NUL == "\\0"

---------------------------------------------------------------------------
(* urllib.parse.urlparse('//' + s), as far as line 121-124 use it *)

NetlocDelims == {"/", "?", "#"}

\* urlsplit's netloc: the text after '//' up to the first of '/', '?', '#'
Netloc(s) ==
    LET d == {i \in 1..Len(s) : s[i] \in NetlocDelims} IN
    IF d = {} THEN s
    ELSE SubSeq(s, 1, (CHOOSE i \in d : \A j \in d : i <= j) - 1)

HasChar(s, c) == \E i \in 1..Len(s) : s[i] = c

\* urlsplit raises ValueError("Invalid IPv6 URL") when the netloc holds one of
\* '[' and ']' without the other.  With both present, interpreters that check
\* the bracketed host as an IP address raise ValueError when it is not one
\* (rejected); others accept it.
UrlparseRaises(s, rejected) ==
    LET n == Netloc(s) IN
    \/ HasChar(n, "[") /\ ~HasChar(n, "]")
    \/ HasChar(n, "]") /\ ~HasChar(n, "[")
    \/ HasChar(n, "[") /\ HasChar(n, "]") /\ rejected

\* _hostinfo: (hostname, port) as text, port None when empty
HostInfo(netloc) ==
    LET hostinfo == rpartition(netloc, "@")[3]
        br == partition(hostinfo, "[")
    IN  IF br[2] # <<>>
        THEN LET cl == partition(br[3], "]")
                 port == partition(cl[3], ":")[3]
             IN  [hostname |-> cl[1],
                  port |-> IF port = <<>> THEN None ELSE PyStr(port)]
        ELSE LET hp == partition(hostinfo, ":")
             IN  [hostname |-> hp[1],
                  port |-> IF hp[3] = <<>> THEN None ELSE PyStr(hp[3])]

\* Hostname with the host text kept in the case it was written in
HostnameKeepCase(netloc) ==
    LET h == HostInfo(netloc).hostname IN
    IF h = <<>> THEN None ELSE PyStr(h)

\* match.hostname: None when empty, else lower-cased up to a '%' zone
Hostname(netloc) ==
    LET h == HostInfo(netloc).hostname
        z == partition(h, "%")
    IN  IF h = <<>> THEN None
        ELSE PyStr(lower(z[1]) \o z[2] \o z[3])

\* match.port: None, the integer, or ValueError (not digits, or above 65535)
Port(netloc) ==
    LET p == HostInfo(netloc).port IN
    IF p = None THEN Ok(None)
    ELSE IF ~isdigit(p.v) THEN Raise("ValueError")
    ELSE IF int(p.v) > 65535 THEN Raise("ValueError")
    ELSE Ok(PyInt(int(p.v)))

---------------------------------------------------------------------------
(* class BindLocation *)

BindLocation(address, port, file_socket, abstract_socket) ==
    [t |-> "BindLocation", address |-> address, port |-> port,
     file_socket |-> file_socket, abstract_socket |-> abstract_socket]

\* _bind_addr filling in a port when only the address is set
BindLocation_bind_addr_DefaultPort(self) ==
    IF self.address = None THEN None
    ELSE Tuple2(self.address,
                IF self.port = None THEN PyInt(8000) ELSE self.port)

\* BindLocation._bind_addr
BindLocation_bind_addr(self) ==
    IF self.address = None \/ self.port = None THEN None
    ELSE Tuple2(self.address, self.port)

\* BindLocation._abstract_socket
BindLocation_abstract_socket(self) ==
    PyAnd(self.abstract_socket,
          IF self.abstract_socket = None THEN None
          ELSE PyStr(<<NUL>> \o self.abstract_socket.v))

\* BindLocation.bind_addr (property)
BindAddr(self) ==
    PyOr(PyOr(BindLocation_bind_addr(self), self.file_socket),
         BindLocation_abstract_socket(self))

---------------------------------------------------------------------------
(* parse_wsgi_bind_addr *)

\* lines 122-128: the try block; a ValueError of match.port is swallowed
TryNetwork(s) ==
    LET addr == Hostname(Netloc(s))
        port == Port(Netloc(s))
    IN  IF port.exc # "" THEN None
        ELSE IF addr # None \/ port.val # None
             THEN BindLocation(addr, port.val, None, None)
             ELSE None

\* lines 130-134
UnixSocket(s) ==
    IF startswith(s, "@")
    THEN BindLocation(None, None, None, PyStr(SubSeq(s, 2, Len(s))))
    ELSE BindLocation(None, None, PyStr(s), None)

parse_wsgi_bind_addr(s, rejected) ==
    IF UrlparseRaises(s, rejected) THEN Raise("ValueError")
    ELSE IF TryNetwork(s) # None THEN Ok(TryNetwork(s))
    ELSE Ok(UnixSocket(s))

---------------------------------------------------------------------------
(* Objects, and the builtins used on them *)

\* an object with a __dict__
Object(cls, dict) == [t |-> cls, dict |-> dict]
vars_(obj) == obj.dict

\* a dict is a function from keys (strings) to values
DictSet(d, k, v) == [x \in DOMAIN d \cup {k} |-> IF x = k THEN v ELSE d[x]]
DictUpdate(d, e) ==
    [x \in DOMAIN d \cup DOMAIN e |-> IF x \in DOMAIN e THEN e[x] ELSE d[x]]

\* what a module attribute may hold
Function(name) == [t |-> "function", name |-> name]
Class(name, mro) == [t |-> "class", name |-> name, mro |-> mro]
Instance(cls, call) == [t |-> "instance", cls |-> cls, call |-> call]

\* cheroot.server.Gateway
server_Gateway == Class("Gateway", <<"Gateway", "object">>)

\* callable(x)
callable(x) ==
    \/ x.t \in {"function", "class"}
    \/ x.t = "instance" /\ x.call

\* issubclass(x, cls): TypeError when x is not a class
issubclass(x, cls) ==
    IF x.t # "class" THEN Raise("TypeError")
    ELSE Ok(\E i \in 1..Len(x.mro) : x.mro[i] = cls.name)

\* importlib.import_module(name) against the importable modules mods
import_module(name, mods) ==
    IF name = <<>> THEN Raise("ValueError")
    ELSE IF startswith(name, ".") THEN Raise("TypeError")
    ELSE IF name \in DOMAIN mods THEN Ok(mods[name])
    ELSE Raise("ModuleNotFoundError")

\* getattr(module, name)
getattr(module, name) ==
    IF name \in DOMAIN module THEN Ok(module[name]) ELSE Raise("AttributeError")

---------------------------------------------------------------------------
(* Keys: attribute names of the Namespace and keyword names of the servers *)

K__wsgi_app == <<"_", "w", "s", "g", "i", "_", "a", "p", "p">>
K_bind_addr == <<"b", "i", "n", "d", "_", "a", "d", "d", "r">>
K_chdir == <<"c", "h", "d", "i", "r">>
K_server_name == <<"s", "e", "r", "v", "e", "r", "_", "n", "a", "m", "e">>
K_numthreads == <<"n", "u", "m", "t", "h", "r", "e", "a", "d", "s">>
K_max == <<"m", "a", "x">>
K_timeout == <<"t", "i", "m", "e", "o", "u", "t">>
K_shutdown_timeout ==
    <<"s", "h", "u", "t", "d", "o", "w", "n", "_", "t", "i", "m", "e", "o",
      "u", "t">>
K_request_queue_size ==
    <<"r", "e", "q", "u", "e", "s", "t", "_", "q", "u", "e", "u", "e", "_",
      "s", "i", "z", "e">>
K_accepted_queue_size ==
    <<"a", "c", "c", "e", "p", "t", "e", "d", "_", "q", "u", "e", "u", "e",
      "_", "s", "i", "z", "e">>
K_accepted_queue_timeout ==
    <<"a", "c", "c", "e", "p", "t", "e", "d", "_", "q", "u", "e", "u", "e",
      "_", "t", "i", "m", "e", "o", "u", "t">>

K_wsgi_app == <<"w", "s", "g", "i", "_", "a", "p", "p">>
K_gateway == <<"g", "a", "t", "e", "w", "a", "y">>
K_maxthreads == <<"m", "a", "x", "t", "h", "r", "e", "a", "d", "s">>
K_minthreads == <<"m", "i", "n", "t", "h", "r", "e", "a", "d", "s">>

APPLICATION == <<"a", "p", "p", "l", "i", "c", "a", "t", "i", "o", "n">>

---------------------------------------------------------------------------
(* class Gateway (lines 104-106) and class Application (lines 70-89) *)

\* Gateway.__init__
Gateway_init(gateway_yo) == Ok(Object("Gateway", K_gateway :> gateway_yo))

\* Application.__init__
Application_init(wsgi_app) ==
    IF ~callable(wsgi_app) THEN Raise("TypeError")
    ELSE Ok(Object("Application", K_wsgi_app :> wsgi_app))

\* the assignment  a, b = t : ValueError unless t has two items
UnpackPair(t) == IF Len(t) = 2 THEN Ok(t) ELSE Raise("ValueError")

\* lines 77-81 of Application.resolve, for the attribute app
Classify(app) ==
    LET sub == issubclass(app, server_Gateway) IN
    IF sub.exc = "" /\ sub.val THEN Gateway_init(app)
    ELSE IF sub.exc \in {"", "TypeError"} THEN Application_init(app)
    ELSE sub

\* Application.resolve
resolve(path, mods) ==
    LET parts == UnpackPair(partition(path, ":")) IN
    IF parts.exc # "" THEN parts
    ELSE LET mod_path == parts.val[1]
             app_path == parts.val[2]
             module == import_module(mod_path, mods)
         IN  IF module.exc # "" THEN module
             ELSE LET app == getattr(module.val,
                                     IF app_path # <<>> THEN app_path
                                     ELSE APPLICATION)
                  IN  IF app.exc # "" THEN app ELSE Classify(app.val)

\* the modules Application.resolve loads (its effect on sys.modules)
resolve_imports(path, mods) ==
    LET parts == UnpackPair(partition(path, ":")) IN
    IF parts.exc # "" THEN {}
    ELSE IF import_module(parts.val[1], mods).exc = "" THEN {parts.val[1]}
    ELSE {}

---------------------------------------------------------------------------
(* The two strategies: Application.server_args, Application.server,
   Gateway.server *)

\* server_args keeping the options whose value is true, not those that are set
server_args_Truthy(self, parsed_args) ==
    LET ns == vars_(parsed_args)
        args == [arg \in {a \in DOMAIN ns : ~startswith(a, "_") /\ Truthy(ns[a])}
                     |-> ns[arg]]
    IN  DictUpdate(args, vars_(self))

\* Application.server_args
server_args(self, parsed_args) ==
    LET ns == vars_(parsed_args)
        args == [arg \in {a \in DOMAIN ns : ~startswith(a, "_") /\ ns[a] # None}
                     |-> ns[arg]]
    IN  DictUpdate(args, vars_(self))

\* a call self.server_args(*positional): one argument is required
Call_server_args(self, positional) ==
    IF Len(positional) # 1 THEN Raise("TypeError")
    ELSE Ok(server_args(self, positional[1]))

\* cheroot.wsgi.Server(**kw) and cheroot.server.HTTPServer(**kw)
wsgi_Server(kw) == Ok([t |-> "wsgi.Server", kwargs |-> kw, started |-> FALSE])
server_HTTPServer(kw) ==
    Ok([t |-> "server.HTTPServer", kwargs |-> kw, started |-> FALSE])

\* server.safe_start()
safe_start(srv) == [srv EXCEPT !.started = TRUE]

\* Application.server: line 101 calls self.server_args() with no argument
Application_server(self, parsed_args) ==
    LET a == Call_server_args(self, <<>>) IN
    IF a.exc # "" THEN a ELSE wsgi_Server(a.val)

\* obj[key]: a Namespace has no __getitem__
GetItem(obj, key) ==
    IF obj.t = "Namespace" THEN Raise("TypeError")
    ELSE IF key \in DOMAIN obj.dict THEN Ok(obj.dict[key])
    ELSE Raise("KeyError")

\* Gateway.server
Gateway_server(self, parsed_args) ==
    LET item == GetItem(parsed_args, K_bind_addr)
        ns == vars_(parsed_args)
    IN  IF item.exc # "" THEN item
        ELSE LET a1 == DictSet(vars_(self), K_bind_addr, item.val)
                 a2 == IF ns[K_max] # None
                       THEN DictSet(a1, K_maxthreads, ns[K_max]) ELSE a1
                 a3 == IF ns[K_numthreads] # None
                       THEN DictSet(a2, K_minthreads, ns[K_numthreads]) ELSE a2
             IN  server_HTTPServer(a3)

\* line 214: '' in sys.path or sys.path.insert(0, '')
EnsureCwd(path) ==
    IF \E i \in 1..Len(path) : path[i] = <<>> THEN path ELSE << <<>> >> \o path

\* line 217: raw_args._wsgi_app.server(raw_args).safe_start()
Serve(args) ==
    LET app == vars_(args)[K__wsgi_app]
        srv == IF app.t = "Application" THEN Application_server(app, args)
               ELSE Gateway_server(app, args)
    IN  IF srv.exc # "" THEN srv ELSE Ok(safe_start(srv.val))

---------------------------------------------------------------------------
(* argparse: the conversions parse_args makes with _arg_spec (lines 137-211) *)

\* the --bind default, '127.0.0.1:8000' (line 147)
BindDefault ==
    <<"1", "2", "7", ".", "0", ".", "0", ".", "1", ":", "8", "0", "0", "0">>

\* _arg_spec: flag -> dest and type
ArgSpec ==
    [flag \in {"APP_MODULE", "--bind", "--chdir", "--server-name", "--threads",
               "--max-threads", "--timeout", "--shutdown-timeout",
               "--request-queue-size", "--accepted-queue-size",
               "--accepted-queue-timeout"} |->
        CASE flag = "APP_MODULE" ->
                 [dest |-> K__wsgi_app, type |-> "Application.resolve"]
          [] flag = "--bind" ->
                 [dest |-> K_bind_addr, type |-> "parse_wsgi_bind_addr"]
          [] flag = "--chdir" -> [dest |-> K_chdir, type |-> "os.chdir"]
          [] flag = "--server-name" -> [dest |-> K_server_name, type |-> "str"]
          [] flag = "--threads" -> [dest |-> K_numthreads, type |-> "int"]
          [] flag = "--max-threads" -> [dest |-> K_max, type |-> "int"]
          [] flag = "--timeout" -> [dest |-> K_timeout, type |-> "int"]
          [] flag = "--shutdown-timeout" ->
                 [dest |-> K_shutdown_timeout, type |-> "int"]
          [] flag = "--request-queue-size" ->
                 [dest |-> K_request_queue_size, type |-> "int"]
          [] flag = "--accepted-queue-size" ->
                 [dest |-> K_accepted_queue_size, type |-> "int"]
          [] flag = "--accepted-queue-timeout" ->
                 [dest |-> K_accepted_queue_timeout, type |-> "int"]]

Dests == {ArgSpec[f].dest : f \in DOMAIN ArgSpec}

\* the Namespace before any argument is consumed: every dest None, but the
\* --bind default, which is still the string
DefaultNamespace ==
    Object("Namespace",
           [d \in Dests |-> IF d = K_bind_addr THEN PyStr(BindDefault) ELSE None])

\* the directories that exist; os.chdir of any other path fails
StartDir == <<"/", "s">>
Directories == {StartDir, <<"/", "d">>, <<"/", "e">>}

\* os.chdir leaving the working directory as it is until parsing is over
Chdir_Deferred(dir, path) == dir

\* the working directory after os.chdir(path) was called in directory dir

Chdir(dir, path) == IF path \in Directories THEN path ELSE dir

\* type(value): the converter of a flag applied to the argument string
Convert(type, value, dir, mods, rejected) ==
    CASE type = "Application.resolve" -> resolve(value, mods)
      [] type = "parse_wsgi_bind_addr" -> parse_wsgi_bind_addr(value, rejected)
      [] type = "os.chdir" ->
             IF value \in Directories THEN Ok(None)
             ELSE Raise("FileNotFoundError")
      [] type = "str" -> Ok(PyStr(value))
      [] type = "int" ->
             IF isdigit(value) THEN Ok(PyInt(int(value))) ELSE Raise("ValueError")

\* argparse turns a converter's TypeError or ValueError into a usage error
\* (exit status 2); any other exception leaves parse_args as it is
AfterConvert(outcome) ==
    IF outcome.exc = "" THEN "parsing"
    ELSE IF outcome.exc \in {"TypeError", "ValueError"} THEN "usage_error"
    ELSE "uncaught"

Seen(args, n, flag) == \E i \in 1..n : args[i].flag = flag

---------------------------------------------------------------------------
(* Inputs *)

RECURSIVE Flatten(_)
Flatten(ts) == IF Len(ts) = 0 THEN <<>> ELSE Head(ts) \o Flatten(Tail(ts))

Strings(tokens, n) ==
    { Flatten(ts) : ts \in UNION { [1..k -> tokens] : k \in 0..n } }

BindTokens ==
    { <<"a">>, <<"A">>, <<"8">>, <<"0">>, <<":">>, <<"@">>, <<"[">>, <<"]">>,
      <<"/">>, <<"6", "5", "5", "3", "5">>, <<"6", "5", "5", "3", "6">> }

BindInputs == Strings(BindTokens, MaxTokens)

PathTokens == { <<"m">>, <<"x">>, <<":">>, <<"H">>, <<".">>, APPLICATION }

PathInputs == Strings(PathTokens, MaxPathTokens)

Handler == Class("Handler", <<"Handler", "Gateway", "object">>)

\* values a module attribute may hold
Objects ==
    { Function("app"), Handler, server_Gateway,
      Class("Plain", <<"Plain", "object">>),
      Instance("App", TRUE), Instance("Settings", FALSE), PyInt(3) }

\* module m with the attributes application and H
ModuleSets ==
    { (<<"m">> :> (APPLICATION :> o1 @@ <<"H">> :> o2)) : o1, o2 \in Objects }

\* the two kinds of handle a parsed option set holds
Handles == { Application_init(Function("app")).val, Gateway_init(Handler).val }

\* bind locations as the --bind converter leaves them in the Namespace
ParsedBinds ==
    { parse_wsgi_bind_addr(b, FALSE).val :
        b \in {BindDefault, <<"/", "s">>, <<"h">>} }

IntValues == {None} \cup {PyInt(n) : n \in 0..MaxInt}
NameValues == {None, PyStr(<<>>), PyStr(<<"s">>)}

\* the Namespaces parse_args can return
ParsedArgs ==
    { Object("Namespace",
             (K__wsgi_app :> h) @@ (K_bind_addr :> b) @@ (K_chdir :> None)
             @@ (K_server_name :> sn) @@ (K_numthreads :> nt) @@ (K_max :> mx)
             @@ (K_timeout :> tm) @@ (K_shutdown_timeout :> st)
             @@ (K_request_queue_size :> rq) @@ (K_accepted_queue_size :> aq)
             @@ (K_accepted_queue_timeout :> at)) :
        h \in Handles, b \in ParsedBinds, sn \in NameValues,
        nt \in IntValues, mx \in IntValues, tm \in IntValues, st \in IntValues,
        rq \in IntValues, aq \in IntValues, at \in IntValues }

LibDir == <<"/", "l">>
SysPaths == { <<LibDir>>, << <<>>, LibDir >> }

\* the (flag, value) items a command line is made of
ArgItems ==
    {[flag |-> "--chdir", value |-> d] :
        d \in {<<"/", "d">>, <<"/", "e">>, <<"/", "n">>}}
    \cup {[flag |-> "--bind", value |-> b] : b \in {<<"a", ":", "8">>, <<"[">>}}
    \cup {[flag |-> "APP_MODULE", value |-> a] :
            a \in {<<"m">>, <<"m", ":", "H">>}}
    \cup {[flag |-> "--threads", value |-> v] : v \in {<<"8">>, <<"x">>}}
    \cup {[flag |-> "--server-name", value |-> <<"s">>]}
    \cup {[flag |-> f, value |-> <<"8">>] :
            f \in {"--max-threads", "--timeout", "--shutdown-timeout",
                   "--request-queue-size", "--accepted-queue-size",
                   "--accepted-queue-timeout"}}

ArgvInputs == UNION { [1..n -> ArgItems] : n \in 0..MaxArgs }

---------------------------------------------------------------------------
(* The variables a specification does not use keep these values *)

IdleBind ==
    /\ bind_addr_string = <<>>
    /\ host_rejected = FALSE
    /\ bind_result = Ok(None)
    /\ bind_addr = None

IdleResolve ==
    /\ full_path = <<>>
    /\ modules = <<>>
    /\ resolved = Ok(None)

IdleServer ==
    /\ raw_args = None
    /\ sys_path = <<>>
    /\ sys_modules = {}
    /\ kwargs = <<>>
    /\ served = Ok(None)

IdleMain ==
    /\ argv = <<>>
    /\ argi = 0
    /\ cwd = <<>>
    /\ converted = <<>>

---------------------------------------------------------------------------
(* SpecBind: one call of parse_wsgi_bind_addr, then one read of bind_addr *)

InitBind ==
    /\ pc = "bind_call"
    /\ bind_addr_string \in BindInputs
    /\ host_rejected \in BOOLEAN
    /\ bind_result = Ok(None)
    /\ bind_addr = None
    /\ IdleResolve /\ IdleServer /\ IdleMain

ParseBind ==
    /\ pc = "bind_call"
    /\ bind_result' = parse_wsgi_bind_addr(bind_addr_string, host_rejected)
    /\ pc' = IF bind_result'.exc # "" THEN "bind_raised" ELSE "bind_returned"
    /\ UNCHANGED <<bind_addr_string, host_rejected, bind_addr>>
    /\ UNCHANGED <<resolveVars, serverVars, mainVars>>

ReadBindAddr ==
    /\ pc = "bind_returned"
    /\ bind_addr' = BindAddr(bind_result.val)
    /\ pc' = "bind_read"
    /\ UNCHANGED <<bind_addr_string, host_rejected, bind_result>>
    /\ UNCHANGED <<resolveVars, serverVars, mainVars>>

NextBind == ParseBind \/ ReadBindAddr

SpecBind == InitBind /\ [][NextBind]_vars

---------------------------------------------------------------------------
(* SpecResolve: one call of Application.resolve *)

InitResolve ==
    /\ pc = "resolve_call"
    /\ full_path \in PathInputs
    /\ modules \in ModuleSets
    /\ resolved = Ok(None)
    /\ IdleBind /\ IdleServer /\ IdleMain

Resolve ==
    /\ pc = "resolve_call"
    /\ resolved' = resolve(full_path, modules)
    /\ sys_modules' = sys_modules \cup resolve_imports(full_path, modules)
    /\ pc' = IF resolved'.exc # "" THEN "resolve_raised" ELSE "resolve_returned"
    /\ UNCHANGED <<full_path, modules, raw_args, sys_path, kwargs, served>>
    /\ UNCHANGED <<bindVars, mainVars>>

NextResolve == Resolve

SpecResolve == InitResolve /\ [][NextResolve]_vars

---------------------------------------------------------------------------
(* SpecServer: from a Namespace parse_args returned (line 211), the rest of
   main (lines 214 and 217), and a call of Application.server_args *)

InitServer ==
    /\ pc = "parsed"
    /\ raw_args \in ParsedArgs
    /\ sys_path \in SysPaths
    /\ sys_modules = {}
    /\ kwargs = <<>>
    /\ served = Ok(None)
    /\ IdleBind /\ IdleResolve /\ IdleMain

\* line 214
EnsureCwdInSysPath ==
    /\ pc = "parsed"
    /\ sys_path' = EnsureCwd(sys_path)
    /\ pc' = "path_set"
    /\ UNCHANGED <<raw_args, sys_modules, kwargs, served>>
    /\ UNCHANGED <<bindVars, resolveVars, mainVars>>

\* line 217
StartServer ==
    /\ pc = "path_set"
    /\ served' = Serve(raw_args)
    /\ pc' = IF served'.exc # "" THEN "serve_raised" ELSE "serving"
    /\ UNCHANGED <<raw_args, sys_path, sys_modules, kwargs>>
    /\ UNCHANGED <<bindVars, resolveVars, mainVars>>

\* raw_args._wsgi_app.server_args(raw_args), for an Application
BuildServerArgs ==
    /\ pc = "parsed"
    /\ vars_(raw_args)[K__wsgi_app].t = "Application"
    /\ kwargs' = server_args(vars_(raw_args)[K__wsgi_app], raw_args)
    /\ pc' = "args_built"
    /\ UNCHANGED <<raw_args, sys_path, sys_modules, served>>
    /\ UNCHANGED <<bindVars, resolveVars, mainVars>>

NextServer == EnsureCwdInSysPath \/ StartServer \/ BuildServerArgs

SpecServer == InitServer /\ [][NextServer]_vars

---------------------------------------------------------------------------
(* SpecMain: parser.parse_args() of main (line 211) on a command line.  The
   converters run as the items are consumed, in command-line order. *)

InitMain ==
    /\ pc = "parsing"
    /\ argv \in ArgvInputs
    /\ argi = 1
    /\ cwd = StartDir
    /\ converted = <<>>
    /\ raw_args = DefaultNamespace
    /\ modules = (<<"m">> :> (APPLICATION :> Function("app") @@ <<"H">> :> Handler))
    /\ sys_path = <<LibDir>>
    /\ sys_modules = {}
    /\ kwargs = <<>>
    /\ served = Ok(None)
    /\ full_path = <<>>
    /\ resolved = Ok(None)
    /\ IdleBind

\* parse_args consumes argv[argi]: it converts the value with the flag's type
\* and stores the result under the flag's dest
ConvertArg ==
    /\ pc = "parsing"
    /\ argi <= Len(argv)
    /\ LET item == argv[argi]
           spec == ArgSpec[item.flag]
           outcome == Convert(spec.type, item.value, cwd, modules, host_rejected)
       IN  /\ cwd' = IF spec.type = "os.chdir" THEN Chdir(cwd, item.value) ELSE cwd
           /\ sys_modules' =
                  IF spec.type = "Application.resolve"
                  THEN sys_modules \cup resolve_imports(item.value, modules)
                  ELSE sys_modules
           /\ converted' = Append(converted,
                                  [flag |-> item.flag, before |-> cwd, after |-> cwd'])
           /\ raw_args' =
                  IF outcome.exc = ""
                  THEN Object("Namespace",
                              DictSet(vars_(raw_args), spec.dest, outcome.val))
                  ELSE raw_args
           /\ pc' = AfterConvert(outcome)
           /\ argi' = argi + 1
    /\ UNCHANGED <<argv, modules, sys_path, kwargs, served, full_path, resolved>>
    /\ UNCHANGED bindVars

\* the command line is consumed: the --bind default is converted when --bind
\* was not given, then a missing APP_MODULE is a usage error
ParseEnd ==
    /\ pc = "parsing"
    /\ argi = Len(argv) + 1
    /\ LET bind == parse_wsgi_bind_addr(BindDefault, host_rejected)
           given == Seen(argv, Len(argv), "--bind")
       IN  /\ raw_args' =
                  IF given THEN raw_args
                  ELSE Object("Namespace",
                              DictSet(vars_(raw_args), K_bind_addr, bind.val))
           /\ converted' =
                  IF given THEN converted
                  ELSE Append(converted,
                              [flag |-> "--bind", before |-> cwd, after |-> cwd])
    /\ pc' = IF Seen(argv, Len(argv), "APP_MODULE") THEN "parsed" ELSE "usage_error"
    /\ UNCHANGED <<argv, argi, cwd>>
    /\ UNCHANGED <<modules, sys_path, sys_modules, kwargs, served, full_path, resolved>>
    /\ UNCHANGED bindVars

NextMain == ConvertArg \/ ParseEnd

SpecMain == InitMain /\ [][NextMain]_vars

---------------------------------------------------------------------------
(* Properties of parse_wsgi_bind_addr and BindLocation.bind_addr (SpecBind) *)

LetterOrDigit(c) ==
    \/ \E i \in 1..Len(UpperChars) : UpperChars[i] = c
    \/ \E i \in 1..Len(LowerChars) : LowerChars[i] = c
    \/ IsDigit(c)

\* a host name: letters, digits, '.' and '-', not empty
IsHostname(h) ==
    Len(h) > 0 /\ \A i \in 1..Len(h) : LetterOrDigit(h[i]) \/ h[i] \in {".", "-"}

\* the input is host ':' digits
HostPortForm(s) ==
    \E i \in 1..Len(s) :
        /\ s[i] = ":"
        /\ IsHostname(SubSeq(s, 1, i - 1))
        /\ isdigit(SubSeq(s, i + 1, Len(s)))

HostOf(s) == SubSeq(s, 1, FirstIndex(s, ":") - 1)
PortOf(s) == SubSeq(s, FirstIndex(s, ":") + 1, Len(s))

BindCalled == pc \in {"bind_raised", "bind_returned", "bind_read"}

\* C6: every input that begins with '@' yields the abstract-socket form whose
\* name is the input without its first character, address, port and file
\* path null, and bind_addr is NUL followed by that name.
C6_AbstractSocketForAt ==
    startswith(bind_addr_string, "@") =>
        /\ BindCalled =>
              bind_result =
                  Ok(BindLocation(None, None, None, PyStr(Tail(bind_addr_string))))
        /\ pc = "bind_read" =>
              bind_addr = PyStr(<<NUL>> \o Tail(bind_addr_string))

\* C7: parse_wsgi_bind_addr returns a BindLocation for every input string and
\* raises nothing.
C7_ParseIsTotal ==
    BindCalled => bind_result.exc = "" /\ bind_result.val.t = "BindLocation"

\* C8 as stated: for host ':' port with a host name in any letter case and an
\* integer port, the address is exactly the host text, the port that integer,
\* file path and abstract name null, and bind_addr the pair (host, port).
C8_HostPortExact ==
    HostPortForm(bind_addr_string) =>
        /\ BindCalled =>
              bind_result =
                  Ok(BindLocation(PyStr(HostOf(bind_addr_string)),
                                  PyInt(int(PortOf(bind_addr_string))), None, None))
        /\ pc = "bind_read" =>
              bind_addr = Tuple2(PyStr(HostOf(bind_addr_string)),
                                 PyInt(int(PortOf(bind_addr_string))))

\* C8 amended: for host ':' port with a host name and a port written in decimal
\* digits of value 0..65535, the address is the host text in lower case, the
\* port that integer, file path and abstract name null, and bind_addr the pair
\* (lower-cased host, port).
C8_HostPortLowered ==
    HostPortForm(bind_addr_string) /\ int(PortOf(bind_addr_string)) <= 65535 =>
        /\ BindCalled =>
              bind_result =
                  Ok(BindLocation(PyStr(lower(HostOf(bind_addr_string))),
                                  PyInt(int(PortOf(bind_addr_string))), None, None))
        /\ pc = "bind_read" =>
              bind_addr = Tuple2(PyStr(lower(HostOf(bind_addr_string))),
                                 PyInt(int(PortOf(bind_addr_string))))

\* a host with an upper-case letter and a port in range has been parsed and read
C8_Witness ==
    /\ pc = "bind_read"
    /\ HostPortForm(bind_addr_string)
    /\ lower(HostOf(bind_addr_string)) # HostOf(bind_addr_string)
    /\ int(PortOf(bind_addr_string)) > 0
    /\ int(PortOf(bind_addr_string)) <= 65535

\* C9: a host name with no port yields a BindLocation with the address set and
\* port, file path and abstract name null, whose bind_addr is null; bind_addr
\* is the pair only when address and port are both non-null.
C9_HostOnlyHasNoBindAddr ==
    /\ IsHostname(bind_addr_string) /\ BindCalled =>
          /\ bind_result.exc = ""
          /\ bind_result.val.address # None
          /\ bind_result.val.port = None
          /\ bind_result.val.file_socket = None
          /\ bind_result.val.abstract_socket = None
    /\ IsHostname(bind_addr_string) /\ pc = "bind_read" => bind_addr = None
    /\ pc = "bind_read" /\ bind_addr.t = "tuple" =>
          bind_result.val.address # None /\ bind_result.val.port # None

\* a host name of two characters or more has been parsed and its bind_addr read
C9_Witness ==
    /\ pc = "bind_read"
    /\ IsHostname(bind_addr_string)
    /\ Len(bind_addr_string) >= 2

---------------------------------------------------------------------------
(* Properties of Application.resolve (SpecResolve) *)

ModOf(p) == partition(p, ":")[1]
AttrOf(p) ==
    IF partition(p, ":")[3] = <<>> THEN APPLICATION ELSE partition(p, ":")[3]

\* the module of full_path imports and has the attribute
Resolvable ==
    /\ ModOf(full_path) \in DOMAIN modules
    /\ AttrOf(full_path) \in DOMAIN modules[ModOf(full_path)]

Target == modules[ModOf(full_path)][AttrOf(full_path)]

IsGatewaySubclass(o) ==
    o.t = "class" /\ \E i \in 1..Len(o.mro) : o.mro[i] = "Gateway"

\* C2: for a path 'mod' or 'mod:attr' whose module imports and whose attribute
\* exists, resolve yields a Gateway handle wrapping the object when it is a
\* class that subclasses server.Gateway, else an Application wrapping it when
\* it is callable, else fails with TypeError.
C2_ResolveClassifies ==
    pc \in {"resolve_raised", "resolve_returned"} /\ Resolvable =>
        IF IsGatewaySubclass(Target)
        THEN resolved = Ok(Object("Gateway", K_gateway :> Target))
        ELSE IF callable(Target)
             THEN resolved = Ok(Object("Application", K_wsgi_app :> Target))
             ELSE resolved.exc = "TypeError"

---------------------------------------------------------------------------
(* Properties of the two strategies and of main after parsing (SpecServer) *)

ServeDone == pc \in {"serve_raised", "serving"}
TheApp == vars_(raw_args)[K__wsgi_app]
Parsed == vars_(raw_args)

\* C1: from a parsed option set whose application is an Application or a
\* Gateway handle, main constructs the matching server (wsgi.Server for an
\* Application, server.HTTPServer for a Gateway) and calls safe_start on it,
\* and nothing is raised on the way.
C1_MainStartsServer ==
    ServeDone =>
        /\ served.exc = ""
        /\ served.val.t = IF TheApp.t = "Application" THEN "wsgi.Server"
                          ELSE "server.HTTPServer"
        /\ served.val.started

PublicDests ==
    { K_bind_addr, K_chdir, K_server_name, K_numthreads, K_max, K_timeout,
      K_shutdown_timeout, K_request_queue_size, K_accepted_queue_size,
      K_accepted_queue_timeout }

\* C3: for an Application, the keyword set holds exactly the parsed options
\* whose key does not start with '_' and whose value is not None, each with
\* its parsed value, and wsgi_app mapped to the callable.
C3_ServerArgsExact ==
    pc = "args_built" =>
        /\ DOMAIN kwargs = {k \in PublicDests : Parsed[k] # None} \cup {K_wsgi_app}
        /\ \A k \in PublicDests : Parsed[k] # None => kwargs[k] = Parsed[k]
        /\ kwargs[K_wsgi_app] = vars_(TheApp)[K_wsgi_app]
        /\ K__wsgi_app \notin DOMAIN kwargs

\* server_args has run on options of which one is 0, one is '' and one is None
C3_Witness ==
    /\ pc = "args_built"
    /\ Parsed[K_numthreads] = PyInt(0)
    /\ Parsed[K_server_name] = PyStr(<<>>)
    /\ Parsed[K_max] = None
    /\ Parsed[K_timeout] # None
    /\ K_numthreads \in DOMAIN kwargs

\* C4: for a Gateway, the keyword set passed to server.HTTPServer holds the
\* gateway and bind_addr, maxthreads exactly when --max-threads was given,
\* minthreads (from --threads) exactly when --threads was given, and no other
\* key.
C4_GatewayKeywordSet ==
    ServeDone /\ TheApp.t = "Gateway" =>
        /\ served.exc = ""
        /\ DOMAIN served.val.kwargs =
               {K_gateway, K_bind_addr}
               \cup (IF Parsed[K_max] # None THEN {K_maxthreads} ELSE {})
               \cup (IF Parsed[K_numthreads] # None THEN {K_minthreads} ELSE {})
        /\ served.val.kwargs[K_gateway] = vars_(TheApp)[K_gateway]
        /\ Parsed[K_max] # None =>
               served.val.kwargs[K_maxthreads] = Parsed[K_max]
        /\ Parsed[K_numthreads] # None =>
               served.val.kwargs[K_minthreads] = Parsed[K_numthreads]

\* C5: in the keyword set of either strategy, bind_addr is the effective
\* address of the parsed bind location (its bind_addr property), and an
\* option that was not given is absent.
C5_BindAddrIsEffective ==
    /\ pc = "args_built" =>
           /\ kwargs[K_bind_addr] = BindAddr(Parsed[K_bind_addr])
           /\ \A k \in {K_max, K_numthreads} :
                  Parsed[k] = None => k \notin DOMAIN kwargs
    /\ ServeDone /\ TheApp.t = "Gateway" =>
           /\ served.exc = ""
           /\ served.val.kwargs[K_bind_addr] = BindAddr(Parsed[K_bind_addr])
           /\ Parsed[K_max] = None => K_maxthreads \notin DOMAIN served.val.kwargs
           /\ Parsed[K_numthreads] = None =>
                  K_minthreads \notin DOMAIN served.val.kwargs

---------------------------------------------------------------------------
(* Properties of option parsing (SpecMain) *)

\* the directory the --chdir flags among the first n items lead to
RECURSIVE DirAfter(_, _)
DirAfter(args, n) ==
    IF n = 0 THEN StartDir
    ELSE IF args[n].flag = "--chdir" THEN args[n].value
    ELSE DirAfter(args, n - 1)

===========================================================================
